---- MODULE Spec2Model ----
(***************************************************************************)
(* A model of the zig_with_cargo build-time orchestrator:                  *)
(*   - build.rs                                  (stand-alone build script)*)
(*   - crates/zig_build/src/lib.rs               (lib(path, name))         *)
(*   - crates/zig_build_bin_linux_x86_64         (zig_bin, checks exists)  *)
(*   - crates/zig_build_bin_windows_x86_64       (zig_bin, path only)      *)
(*   - crates/zig_build_linux_x86_64             (zig_bin, always unpacks) *)
(*                                                                         *)
(* Paths and names are strings, built with \o exactly as the Rust code     *)
(* builds them with +.  The filesystem is one function from path to        *)
(* content.  Tool outputs (cbindgen, zig, bindgen) are functions of what   *)
(* the tool reads.                                                         *)
(***************************************************************************)
EXTENDS Integers, Sequences, FiniteSets, TLC

(* ------------------------------- bounds -------------------------------- *)
\* units (calls of lib) per run of a build script
MaxUnits == 2
\* runs of the build script over the same directories
MaxRuns == 2
\* support files in the toolchain archive beside the compiler binary
NSupport == 2
\* direct calls of zig_bin by a provisioning-only build script
MaxCalls == 2
\* length of the compiler's captured standard error, in bytes
MaxStderrLen == 2

(* --------------------------- inputs (environment) ---------------------- *)
Unset == "<unset>"
\* values cargo gives OUT_DIR and CARGO_MANIFEST_DIR
OutDirValue == "/t/out"
ProjectDirValue == "/p"
\* the directory of a crate, as Path::new(file!()).parent().parent() gives it
CrateDir(c) == "crates/" \o c
\* bytes the compiler may write to standard error: the two bytes of U+00E9,
\* which are valid UTF-8 only as the pair 195,169
StderrBytes == {195, 169}
Hosts == {"linux-x86_64", "windows-x86_64", "macos-x86_64"}
Procs == {1, 2}

(* ------------------------------ helpers -------------------------------- *)
SeqsUpTo(S, n) == UNION {[1..k -> S] : k \in 0..n}

\* the file stem of a path: after the last '/', before the last '.'
RECURSIVE LastIndexOf(_, _, _)
LastIndexOf(s, ch, i) ==
    IF i = 0 THEN 0
    ELSE IF SubSeq(s, i, i) = ch THEN i ELSE LastIndexOf(s, ch, i - 1)

Stem(path) ==
    LET slash == LastIndexOf(path, "/", Len(path))
        base  == SubSeq(path, slash + 1, Len(path))
        dot   == LastIndexOf(base, ".", Len(base))
    IN  IF dot <= 1 THEN base ELSE SubSeq(base, 1, dot - 1)

(* ------------------- crates/zig_build/src/lib.rs:1-8 ------------------- *)
\* The configuration rustc defines for a host: target_arch, and the bare
\* names it sets (only `unix` and `windows` exist as bare names; `linux` and
\* `macos` are spelled target_os = "..." and are never set as bare names).
TargetCfg(h) ==
    [arch |-> "x86_64",
     names |-> IF h = "windows-x86_64" THEN {"windows"} ELSE {"unix"}]

\* #[cfg(all(target_arch = "x86_64", any(linux, unix)))]
CfgLinux(cfg) == cfg.arch = "x86_64" /\ ("linux" \in cfg.names \/ "unix" \in cfg.names)
\* #[cfg(all(target_arch = "x86_64", windows))]
CfgWindows(cfg) == cfg.arch = "x86_64" /\ "windows" \in cfg.names
\* #[cfg(all(target_arch = "x86_64", macos))]
CfgMacos(cfg) == cfg.arch = "x86_64" /\ "macos" \in cfg.names

\* the crates whose zig_bin is imported on host h
ZigBinImports(h) ==
    LET cfg == TargetCfg(h)
    IN  (IF CfgLinux(cfg) THEN {"zig_build_bin_linux_x86_64"} ELSE {})
        \cup (IF CfgWindows(cfg) THEN {"zig_build_bin_windows_x86_64"} ELSE {})
        \cup (IF CfgMacos(cfg) THEN {"zig_build_bin_macos_x86_64"} ELSE {})

\* the crate that carries the toolchain of host h
OwnCrate(h) == "zig_build_bin_" \o
    (IF h = "linux-x86_64" THEN "linux_x86_64"
     ELSE IF h = "windows-x86_64" THEN "windows_x86_64" ELSE "macos_x86_64")

\* the host a crate's bundled compiler binary runs on
CrateHost(c) ==
    IF c = "zig_build_bin_windows_x86_64" THEN "windows-x86_64"
    ELSE IF c = "zig_build_bin_macos_x86_64" THEN "macos-x86_64"
    ELSE "linux-x86_64"

\* the crates under crates/ that define zig_bin
Crates == {"zig_build_bin_linux_x86_64", "zig_build_bin_windows_x86_64",
           "zig_build_linux_x86_64"}

(* ----------------------------- zig_bin paths --------------------------- *)
\* static RELEASE, per crate
Release(c) ==
    IF c = "zig_build_bin_windows_x86_64" THEN "windows-x86_64-0.5.0+80ff549e2"
    ELSE "linux-x86_64-0.5.0"

\* the directory the archive is unpacked into
UnpackRoot(c, out_dir) ==
    IF c = "zig_build_linux_x86_64" THEN out_dir \o "/zig_build_linux_x86_64"
    ELSE out_dir

\* the path zig_bin returns
BinPath(c, out_dir) ==
    IF c = "zig_build_bin_linux_x86_64"
        THEN out_dir \o "/zig-" \o Release(c) \o "/zig"
    ELSE IF c = "zig_build_linux_x86_64"
        THEN UnpackRoot(c, out_dir) \o "/zig-linux-x86_64-0.5.0/zig"
    ELSE CrateDir(c) \o "/zig-" \o Release(c) \o "/zig.exe"

\* the entries of zig-linux-x86_64-0.5.0.tar.xz: the compiler binary and its
\* support files, rooted at the version-qualified directory
BinEntry == "zig-linux-x86_64-0.5.0/zig"
SupportEntry(i) == "zig-linux-x86_64-0.5.0/lib/f" \o ToString(i)
ArchiveEntries == {BinEntry} \cup {SupportEntry(i) : i \in 1..NSupport}
\* the order of the entries in the archive is a fact of the archive file:
\* the binary first, or the binary last
ArchiveOrders ==
    LET sup == [i \in 1..NSupport |-> SupportEntry(i)]
    IN  {<<BinEntry>> \o sup, sup \o <<BinEntry>>}

\* the files of the toolchain zig_bin of crate c provides
ToolchainPaths(c, out_dir) ==
    IF c = "zig_build_bin_windows_x86_64" THEN {BinPath(c, out_dir)}
    ELSE {UnpackRoot(c, out_dir) \o "/" \o e : e \in ArchiveEntries}

(* ------------------------------ filesystem ----------------------------- *)
Exists(f, path) == path \in DOMAIN f
WriteFile(f, path, content) ==
    [q \in DOMAIN f \cup {path} |-> IF q = path THEN content ELSE f[q]]
ToolFile(part) == [kind |-> "tool", partial |-> part]
\* a toolchain is usable when every file of it is present and whole
ToolchainComplete(f, c, out_dir) ==
    \A q \in ToolchainPaths(c, out_dir) : Exists(f, q) /\ ~f[q].partial


(* ------------------------------- state --------------------------------- *)
VARIABLES
    host,      \* the host triple the build script is compiled for
    env,       \* [out_dir, project_dir]: OUT_DIR and CARGO_MANIFEST_DIR
    archive,   \* the entries of the toolchain archive, in archive order
    modsGen,   \* whether the crate declares the generated bindings as modules
    prog,      \* per process: "lib", "main", "zig_bin" or "off"
    crate,     \* per process: the crate whose zig_bin it calls
    fs,        \* the filesystem: path -> content
    zpc,       \* per process: position inside zig_bin
    zptr,      \* per process: index of the archive entry being unpacked
    zwrites,   \* per process: filesystem writes of the current zig_bin call
    zcalls,    \* per process: calls of zig_bin begun (provisioning script)
    zret,      \* per process: what the last returned call returned
    zprev,     \* per process: [ret, ready] of the returned call before it
    pc,        \* position of the build script (process 1)
    unit,      \* the unit being processed: [path, name]
    nunits,    \* units begun in this run
    run,       \* run of the build script
    out,       \* the directive channel (stdout) of this run
    trace,     \* the stages of the current unit, in the order they ran
    argv,      \* the arguments of the last compiler Command
    output,    \* the InvocationResult of Command::output
    diag,      \* what the failure printed for the user
    cause,     \* why the run failed
    fresh,     \* paths whose content on disk was generated in this run
    finished   \* units completed in this run, with their files as they were

zvars == <<zpc, zptr, zwrites, zcalls, zret, zprev>>
pvars == <<pc, unit, nunits, run, out, trace, argv, output, diag, cause, fresh, finished>>
cvars == <<host, env, archive, modsGen, prog, crate>>
vars == <<cvars, fs, zvars, pvars>>

None == [none |-> TRUE]
NoUnit == [path |-> "", name |-> ""]
\* the process that runs the build script: the first one
Builder == CHOOSE p \in Procs : \A q \in Procs : p <= q

(* --- zig_bin: crates/zig_build_bin_linux_x86_64/src/lib.rs:8-30,       --- *)
(* ---          crates/zig_build_linux_x86_64/src/lib.rs:7-18,           --- *)
(* ---          crates/zig_build_bin_windows_x86_64/src/lib.rs:5-14      --- *)

\* a panic inside zig_bin ends the process; in lib it fails the run
ZbPanic(p) ==
    /\ zpc' = [zpc EXCEPT ![p] = "panicked"]
    /\ zprev' = [zprev EXCEPT ![p] = None]
    /\ zret' = [zret EXCEPT ![p] = None]
    /\ IF prog[p] = "lib"
         THEN /\ pc' = "failed"
              /\ cause' = "provision"
              /\ diag' = [head |-> "panic: zig_bin", body |-> <<>>]
         ELSE UNCHANGED <<pc, cause, diag>>
    /\ UNCHANGED <<unit, nunits, run, out, trace, argv, output, fresh, finished>>

\* a build script that only provisions calls zig_bin
CallZigBin(p) ==
    /\ prog[p] = "zig_bin"
    /\ zpc[p] \in {"none", "panicked"}
    /\ zcalls[p] < MaxCalls
    /\ zpc' = [zpc EXCEPT ![p] = "enter"]
    /\ zcalls' = [zcalls EXCEPT ![p] = @ + 1]
    /\ zwrites' = [zwrites EXCEPT ![p] = 0]
    /\ UNCHANGED <<cvars, fs, zptr, zret, zprev, pvars>>

\* reading OUT_DIR and building the paths; the windows crate reads nothing
\* and returns its path at once, the older linux crate unpacks at once
ZbEnter(p) ==
    /\ zpc[p] = "enter"
    /\ UNCHANGED <<cvars, fs, zcalls, zwrites>>
    /\ IF crate[p] = "zig_build_bin_windows_x86_64"
         THEN /\ zpc' = [zpc EXCEPT ![p] = "return"]
              /\ UNCHANGED <<zptr, zret, zprev, pvars>>
       ELSE IF env.out_dir = Unset
         THEN ZbPanic(p) /\ UNCHANGED zptr
       ELSE /\ zpc' = [zpc EXCEPT ![p] =
                        IF crate[p] = "zig_build_linux_x86_64" THEN "create" ELSE "check"]
            /\ zptr' = [zptr EXCEPT ![p] = 1]
            /\ UNCHANGED <<zret, zprev, pvars>>

\* if !Path::new(&bin_path).exists()
ZbCheck(p) ==
    /\ zpc[p] = "check"
    /\ zpc' = [zpc EXCEPT ![p] =
                 IF Exists(fs, BinPath(crate[p], env.out_dir)) THEN "return" ELSE "open"]
    /\ UNCHANGED <<cvars, fs, zptr, zwrites, zcalls, zret, zprev, pvars>>

\* File::open(...).expect("failed to open zig tarball")
ZbOpen(p) ==
    /\ zpc[p] = "open"
    /\ UNCHANGED <<cvars, fs, zwrites, zcalls, zptr>>
    /\ \/ /\ zpc' = [zpc EXCEPT ![p] = "create"]
          /\ UNCHANGED <<zret, zprev, pvars>>
       \/ ZbPanic(p)

\* archive.unpack: the next entry's file is created anew (an existing file is
\* replaced), empty
ZbCreate(p) ==
    /\ zpc[p] = "create"
    /\ fs' = WriteFile(fs, UnpackRoot(crate[p], env.out_dir) \o "/" \o archive[zptr[p]],
                       ToolFile(TRUE))
    /\ zwrites' = [zwrites EXCEPT ![p] = @ + 1]
    /\ zpc' = [zpc EXCEPT ![p] = "write"]
    /\ UNCHANGED <<cvars, zptr, zcalls, zret, zprev, pvars>>

\* archive.unpack: the entry's bytes are written; .expect("failed to untar zig")
ZbWrite(p) ==
    /\ zpc[p] = "write"
    /\ UNCHANGED <<cvars, zwrites, zcalls>>
    /\ \/ /\ fs' = WriteFile(fs, UnpackRoot(crate[p], env.out_dir) \o "/" \o archive[zptr[p]],
                             ToolFile(FALSE))
          /\ zptr' = [zptr EXCEPT ![p] = @ + 1]
          /\ zpc' = [zpc EXCEPT ![p] =
                       IF zptr[p] = Len(archive) THEN "return" ELSE "create"]
          /\ UNCHANGED <<zret, zprev, pvars>>
       \/ /\ ZbPanic(p)
          /\ UNCHANGED <<fs, zptr>>

\* return bin_path; in lib the next statement is the cbindgen builder
ZbReturn(p) ==
    /\ zpc[p] = "return"
    /\ zpc' = [zpc EXCEPT ![p] = "none"]
    /\ zret' = [zret EXCEPT ![p] =
                  [ret |-> BinPath(crate[p], env.out_dir),
                   ready |-> ToolchainComplete(fs, crate[p], env.out_dir),
                   writes |-> zwrites[p]]]
    /\ zprev' = [zprev EXCEPT ![p] = zret[p]]
    /\ IF prog[p] = "lib"
         THEN /\ pc' = "cbindgen"
              /\ trace' = Append(trace, "zig_bin")
         ELSE UNCHANGED <<pc, trace>>
    /\ UNCHANGED <<cvars, fs, zptr, zwrites, zcalls>>
    /\ UNCHANGED <<unit, nunits, run, out, argv, output, diag, cause, fresh, finished>>

ZigBinStep(p) ==
    \/ ZbEnter(p)
    \/ ZbCheck(p)
    \/ ZbOpen(p)
    \/ ZbCreate(p)
    \/ ZbWrite(p)
    \/ ZbReturn(p)


(* ------------------- paths built by lib and by main -------------------- *)
\* a lib_dir that leaves the library name out, as build.rs:5 does
LibDirShared(out_dir, name) == out_dir \o "/zig-lib"
\* lib.rs:15  let lib_dir = out_dir + "/zig-lib-" + name;
LibDir(out_dir, name) == out_dir \o "/zig-lib-" \o name
\* build.rs:5  let lib_dir = out_dir + "/zig-lib";
MainLibDir(out_dir) == out_dir \o "/zig-lib"
\* lib.rs:16  let src_path = project_dir.to_string() + "/" + path;
SrcPath(project_dir, path) == project_dir \o "/" \o path
\* lib.rs:24  project_dir + "/src/rust.h"
RustH(project_dir) == project_dir \o "/src/rust.h"
\* lib.rs:60  lib_dir + "/" + name + ".h"
HeaderPath(lib_dir, name) == lib_dir \o "/" \o name \o ".h"
\* lib.rs:63  src_path[..src_path.len() - 4].to_string() + ".rs"
BindingPath(src_path) == SubSeq(src_path, 1, Len(src_path) - 4) \o ".rs"
\* build.rs:6-7, 43
MainUnit == [path |-> "src/ziggy.zig", name |-> "ziggy"]

\* what zig build-lib leaves in --output-dir: no --name is passed, so both
\* files are named after the source file
ZigHeaderOut(lib_dir, src_path) == lib_dir \o "/" \o Stem(src_path) \o ".h"
ZigLibOut(lib_dir, src_path) == lib_dir \o "/lib" \o Stem(src_path) \o ".a"

\* cargo's directive lines
LinkSearch(lib_dir) == "cargo:rustc-link-search=native=" \o lib_dir
LinkLib(name) == "cargo:rustc-link-lib=static=" \o name
RerunIfChanged(src_path) == "cargo:rerun-if-changed=" \o src_path

(* ------------------------- what the tools write ------------------------ *)
IsRustSource(q, project_dir) ==
    /\ Len(q) > Len(project_dir) + 3
    /\ SubSeq(q, 1, Len(project_dir)) = project_dir
    /\ SubSeq(q, Len(q) - 2, Len(q)) = ".rs"

\* cbindgen::Builder::new().with_crate(&project_dir): the header is generated
\* from the crate's sources, the generated bindings among them when the crate
\* declares them as modules
CbindgenHeader(f, project_dir, mods) ==
    [kind |-> "c_header",
     mods |-> IF mods
                THEN {<<q, f[q]>> : q \in {r \in DOMAIN f : IsRustSource(r, project_dir)}}
                ELSE {}]

ZigHeader(src_path) == [kind |-> "zig_header", src |-> src_path]
ZigLib(f, src_path, rust_h) ==
    [kind |-> "staticlib", src |-> src_path,
     against |-> IF Exists(f, rust_h) THEN f[rust_h] ELSE None]
\* bindgen::Builder::default().header(h).generate()
BindgenSource(f, header) == [kind |-> "rust_binding", of |-> f[header]]

(* ----------------------------- diagnostics ----------------------------- *)
\* std::str::from_utf8(bytes).is_ok()
RECURSIVE Utf8ValidFrom(_, _)
Utf8ValidFrom(b, i) ==
    LET Cont(k) == k <= Len(b) /\ b[k] >= 128 /\ b[k] <= 191
    IN  IF i > Len(b) THEN TRUE
        ELSE IF b[i] < 128 THEN Utf8ValidFrom(b, i + 1)
        ELSE IF b[i] >= 194 /\ b[i] <= 223
            THEN Cont(i + 1) /\ Utf8ValidFrom(b, i + 2)
        ELSE IF b[i] >= 224 /\ b[i] <= 239
            THEN /\ Cont(i + 1) /\ Cont(i + 2)
                 /\ (b[i] = 224 => b[i + 1] >= 160)
                 /\ (b[i] = 237 => b[i + 1] <= 159)
                 /\ Utf8ValidFrom(b, i + 3)
        ELSE IF b[i] >= 240 /\ b[i] <= 244
            THEN /\ Cont(i + 1) /\ Cont(i + 2) /\ Cont(i + 3)
                 /\ (b[i] = 240 => b[i + 1] >= 144)
                 /\ (b[i] = 244 => b[i + 1] <= 143)
                 /\ Utf8ValidFrom(b, i + 4)
        ELSE FALSE
Utf8Valid(b) == Utf8ValidFrom(b, 1)

\* the decimal digits of n, as ASCII bytes
RECURSIVE Decimal(_)
Decimal(n) == IF n < 10 THEN <<48 + n>> ELSE Decimal(n \div 10) \o <<48 + (n % 10)>>

\* format!("{:?}", bytes) of a Vec<u8>: "[65, 195]", as ASCII bytes
RECURSIVE DebugItems(_, _)
DebugItems(b, i) ==
    IF i > Len(b) THEN <<>>
    ELSE (IF i > 1 THEN <<44, 32>> ELSE <<>>) \o Decimal(b[i]) \o DebugItems(b, i + 1)
DebugFmt(b) == <<91>> \o DebugItems(b, 1) \o <<93>>

\* lib.rs:46-53: the text after "--- stderr\n"
LibStderrText(stderr) == IF Utf8Valid(stderr) THEN stderr ELSE DebugFmt(stderr)
\* build.rs:28: the text after "zig compilation failed: "
MainStderrText(stderr) == DebugFmt(stderr)


(* ---------------------- Command::output() outcomes --------------------- *)
\* Err(error), or Ok(output) with an exit status and the captured stderr.
\* code = -1 stands for status.code() = None (killed by a signal, unix only).
SpawnError == [spawned |-> FALSE, success |-> FALSE, code |-> -1, stderr |-> <<>>]
Exited(code, stderr) ==
    [spawned |-> TRUE, success |-> code = 0, code |-> code, stderr |-> stderr]
CompileOutcomes(h, canRun, canSucceed) ==
    {SpawnError}
    \cup (IF canRun
            THEN {Exited(1, s) : s \in SeqsUpTo(StderrBytes, MaxStderrLen)}
                 \cup (IF h = "windows-x86_64" THEN {} ELSE {Exited(-1, <<>>)})
            ELSE {})
    \cup (IF canSucceed THEN {Exited(0, <<>>)} ELSE {})

\* the process ends without returning: panic!, expect, unwrap, exit(1)
Fail(why, head, body) ==
    /\ pc' = "failed"
    /\ cause' = why
    /\ diag' = [head |-> head, body |-> body]

\* the files of a unit: its library and header, its binding source, and the
\* host-callable header it was compiled against
UnitFiles(lib_dir, name, src_path, project_dir) ==
    {ZigLibOut(lib_dir, src_path), ZigHeaderOut(lib_dir, src_path),
     HeaderPath(lib_dir, name), BindingPath(src_path), RustH(project_dir)}

Snapshot(f, paths) == [q \in paths \cap DOMAIN f |-> f[q]]

Finished(f, u, lib_dir, idx, lines) ==
    LET paths == UnitFiles(lib_dir, u.name, SrcPath(env.project_dir, u.path),
                           env.project_dir)
    IN  [name |-> u.name, path |-> u.path, idx |-> idx, lines |-> lines, argv |-> argv,
         paths |-> paths, files |-> Snapshot(f, paths)]

LinesOf(o, idx) == SelectSeq(o, LAMBDA d : d.unit = idx)

(* ------------------ lib: crates/zig_build/src/lib.rs:10-68 ------------- *)
\* lib.rs:10-17: the environment, the paths, and the call of zig_bin
LibEnter(u) ==
    /\ prog[Builder] = "lib"
    /\ pc = "start"
    /\ nunits < MaxUnits
    /\ unit' = u
    /\ nunits' = nunits + 1
    /\ trace' = <<>>
    /\ argv' = None
    /\ output' = None
    /\ IF env.out_dir = Unset \/ env.project_dir = Unset
         THEN /\ Fail("env", "panic: expected (not called from build script?)", <<>>)
              /\ UNCHANGED zvars
         ELSE /\ pc' = "zig_bin"
              /\ zpc' = [zpc EXCEPT ![Builder] = "enter"]
              /\ zwrites' = [zwrites EXCEPT ![Builder] = 0]
              /\ UNCHANGED <<zptr, zcalls, zret, zprev, diag, cause>>
    /\ UNCHANGED <<cvars, fs, run, out, fresh, finished>>

\* lib.rs:19-24: generate the host-callable header and write it.
\* Bindings::write_to_file returns whether the file changed (there is no
\* Result to check) and panics itself when the file cannot be written.
Cbindgen ==
    /\ pc = "cbindgen"
    /\ trace' = Append(trace, "cbindgen")
    /\ UNCHANGED <<cvars, zvars, unit, nunits, run, out, argv, output, finished>>
    /\ \/ /\ Fail("cbindgen", "panic: Unable to generate zig -> rust bindings", <<>>)
          /\ UNCHANGED <<fs, fresh>>
       \/ /\ Fail("cbindgen", "panic: write_to_file", <<>>)
          /\ UNCHANGED <<fs, fresh>>
       \/ /\ fs' = WriteFile(fs, RustH(env.project_dir),
                             CbindgenHeader(fs, env.project_dir, modsGen))
          /\ fresh' = fresh \cup {RustH(env.project_dir)}
          /\ pc' = "compile"
          /\ UNCHANGED <<diag, cause>>

\* a match whose success arm goes straight to the directives
MatchThenEmit(o) ==
    IF o.success
      THEN /\ pc' = "emit_search"
           /\ UNCHANGED <<diag, cause>>
      ELSE Fail(IF o.spawned THEN "compile" ELSE "spawn", "", <<>>)

\* lib.rs:39-57: match output
Match(o) ==
    IF ~o.spawned
      THEN Fail("spawn", "unable to execute zig: ", <<>>)
    ELSE IF ~o.success
      THEN IF o.code = -1
             THEN Fail("compile", "panic: called Option::unwrap() on a None value", <<>>)
             ELSE Fail("compile",
                       "  process didn't exit successfully: " \o zret[Builder].ret
                         \o " (exit code: " \o ToString(o.code) \o ") --- stderr ",
                       LibStderrText(o.stderr))
    ELSE /\ pc' = "bindgen"
         /\ UNCHANGED <<diag, cause>>

\* lib.rs:26-57: zig build-lib --library c -fPIC --bundle-compiler-rt
\*               --output-dir lib_dir src_path, run to its end, and the match
\*               on what it returned
Compile ==
    /\ pc = "compile"
    /\ LET zbin    == zret[Builder].ret
           lib_dir == LibDir(env.out_dir, unit.name)
           src     == SrcPath(env.project_dir, unit.path)
           canRun  == /\ Exists(fs, zbin)
                      /\ ~fs[zbin].partial
                      /\ CrateHost(crate[Builder]) = host
           canOk   == canRun /\ ToolchainComplete(fs, crate[Builder], env.out_dir)
       IN  \E o \in CompileOutcomes(host, canRun, canOk) :
              /\ argv' = <<"build-lib", "--library", "c", "-fPIC", "--bundle-compiler-rt",
                            "--output-dir", lib_dir, src>>
              /\ output' = o
              /\ IF o.success
                   THEN /\ fs' = WriteFile(
                                   WriteFile(fs, ZigLibOut(lib_dir, src),
                                             ZigLib(fs, src, RustH(env.project_dir))),
                                   ZigHeaderOut(lib_dir, src), ZigHeader(src))
                        /\ fresh' = fresh \cup {ZigLibOut(lib_dir, src), ZigHeaderOut(lib_dir, src)}
                   ELSE UNCHANGED <<fs, fresh>>
              /\ Match(o)
    /\ trace' = Append(trace, "compile")
    /\ UNCHANGED <<cvars, zvars, unit, nunits, run, out, finished>>

\* lib.rs:59-64: generate the bindings of lib_dir/name.h and write them
\* next to the source
Bindgen ==
    /\ pc = "bindgen"
    /\ trace' = Append(trace, "bindgen")
    /\ UNCHANGED <<cvars, zvars, unit, nunits, run, out, argv, output, finished>>
    /\ LET header  == HeaderPath(LibDir(env.out_dir, unit.name), unit.name)
           binding == BindingPath(SrcPath(env.project_dir, unit.path))
       IN  \/ /\ Fail("bindgen", "panic: Unable to generate rust -> zig bindings", <<>>)
              /\ UNCHANGED <<fs, fresh>>
           \/ /\ Exists(fs, header)
              /\ Fail("bindgen", "panic: Couldn't write bindings!", <<>>)
              /\ UNCHANGED <<fs, fresh>>
           \/ /\ Exists(fs, header)
              /\ fs' = WriteFile(fs, binding, BindgenSource(fs, header))
              /\ fresh' = fresh \cup {binding}
              /\ pc' = "emit_search"
              /\ UNCHANGED <<diag, cause>>

\* lib.rs:66
EmitSearch ==
    /\ pc = "emit_search"
    /\ out' = Append(out, [line |-> LinkSearch(LibDir(env.out_dir, unit.name)),
                           unit |-> nunits])
    /\ trace' = Append(trace, "directive")
    /\ pc' = "emit_lib"
    /\ UNCHANGED <<cvars, fs, zvars, unit, nunits, run, argv, output, diag, cause,
                   fresh, finished>>

\* lib.rs:67-68: the last directive, and lib returns to the build script
EmitLib ==
    /\ pc = "emit_lib"
    /\ out' = Append(out, [line |-> LinkLib(unit.name), unit |-> nunits])
    /\ trace' = Append(trace, "directive")
    /\ pc' = "start"
    /\ finished' = Append(finished,
                          Finished(fs, unit, LibDir(env.out_dir, unit.name), nunits,
                                   LinesOf(out', nunits)))
    /\ UNCHANGED <<cvars, fs, zvars, unit, nunits, run, argv, output, diag, cause, fresh>>


(* ------------------------- main: build.rs:1-45 ------------------------- *)
\* build.rs:2-7: the environment (unwrap) and the paths; zig_bin is "./zig"
MainEnter ==
    /\ prog[Builder] = "main"
    /\ pc = "start"
    /\ nunits = 0
    /\ unit' = MainUnit
    /\ nunits' = 1
    /\ trace' = <<>>
    /\ IF env.out_dir = Unset \/ env.project_dir = Unset
         THEN Fail("env", "panic: called Result::unwrap() on an Err value", <<>>)
         ELSE /\ pc' = "m_compile"
              /\ UNCHANGED <<diag, cause>>
    /\ UNCHANGED <<cvars, fs, zvars, run, out, argv, output, fresh, finished>>

\* build.rs:22-31: match output
MainMatch(o) ==
    IF ~o.spawned
      THEN Fail("spawn", "panic: unable to execute zig: ", <<>>)
    ELSE IF ~o.success
      THEN Fail("compile", "panic: zig compilation failed: ", MainStderrText(o.stderr))
    ELSE /\ pc' = "m_emit_rerun"
         /\ UNCHANGED <<diag, cause>>

\* build.rs:9-31: ./zig build-lib -fPIC --bundle-compiler-rt --output-dir
\*                lib_dir src_path, run to its end, and the match on what it
\*                returned
MainCompile ==
    /\ pc = "m_compile"
    /\ LET lib_dir == MainLibDir(env.out_dir)
           src     == SrcPath(env.project_dir, unit.path)
       IN  \E o \in CompileOutcomes(host, TRUE, TRUE) :
              /\ argv' = <<"build-lib", "-fPIC", "--bundle-compiler-rt", "--output-dir",
                            lib_dir, src>>
              /\ output' = o
              /\ IF o.success
                   THEN /\ fs' = WriteFile(
                                   WriteFile(fs, ZigLibOut(lib_dir, src),
                                             ZigLib(fs, src, RustH(env.project_dir))),
                                   ZigHeaderOut(lib_dir, src), ZigHeader(src))
                        /\ fresh' = fresh \cup {ZigLibOut(lib_dir, src), ZigHeaderOut(lib_dir, src)}
                   ELSE UNCHANGED <<fs, fresh>>
              /\ MainMatch(o)
    /\ trace' = Append(trace, "compile")
    /\ UNCHANGED <<cvars, zvars, unit, nunits, run, out, finished>>

\* one println! of build.rs:33-35
MainEmit(at, line, next) ==
    /\ pc = at
    /\ out' = Append(out, [line |-> line, unit |-> nunits])
    /\ trace' = Append(trace, "directive")
    /\ pc' = next
    /\ UNCHANGED <<cvars, fs, zvars, unit, nunits, run, argv, output, diag, cause,
                   fresh, finished>>

\* build.rs:33
MainEmitRerun ==
    MainEmit("m_emit_rerun", RerunIfChanged(SrcPath(env.project_dir, unit.path)),
             "m_emit_search")
\* build.rs:34
MainEmitSearch ==
    MainEmit("m_emit_search", LinkSearch(MainLibDir(env.out_dir)), "m_emit_lib")
\* build.rs:35
MainEmitLib ==
    MainEmit("m_emit_lib", LinkLib(unit.name), "m_bindgen")

\* build.rs:37-44: generate the bindings of lib_dir/ziggy.h and write them to
\* project_dir/src/ziggy.rs; main returns
MainBindgen ==
    /\ pc = "m_bindgen"
    /\ trace' = Append(trace, "bindgen")
    /\ UNCHANGED <<cvars, zvars, unit, nunits, run, out, argv, output>>
    /\ LET header  == HeaderPath(MainLibDir(env.out_dir), unit.name)
           binding == env.project_dir \o "/src/ziggy.rs"
       IN  \/ /\ Fail("bindgen", "panic: Unable to generate bindings", <<>>)
              /\ UNCHANGED <<fs, fresh, finished>>
           \/ /\ Exists(fs, header)
              /\ Fail("bindgen", "panic: Couldn't write bindings!", <<>>)
              /\ UNCHANGED <<fs, fresh, finished>>
           \/ /\ Exists(fs, header)
              /\ fs' = WriteFile(fs, binding, BindgenSource(fs, header))
              /\ fresh' = fresh \cup {binding}
              /\ pc' = "start"
              /\ finished' = Append(finished,
                                    Finished(fs', unit, MainLibDir(env.out_dir), nunits,
                                             LinesOf(out, nunits)))
              /\ UNCHANGED <<diag, cause>>

(* ------------------- the build is run again (by cargo) ----------------- *)
\* a later run of the same build script over the same directories
Rerun ==
    /\ prog[Builder] \in {"lib", "main"}
    /\ pc = "failed" \/ (pc = "start" /\ nunits > 0)
    /\ run < MaxRuns
    /\ run' = run + 1
    /\ pc' = "start"
    /\ unit' = NoUnit
    /\ nunits' = 0
    /\ out' = <<>>
    /\ trace' = <<>>
    /\ argv' = None
    /\ output' = None
    /\ diag' = None
    /\ cause' = "none"
    /\ fresh' = {}
    /\ finished' = <<>>
    /\ UNCHANGED <<cvars, fs, zvars>>

(* ------------------------------ behaviours ----------------------------- *)
\* the units a build script passes to lib(path, name): two whose name is the
\* stem of their source file, and one whose name is not
Units ==
    {[path |-> "src/a.zig", name |-> "a"],
     [path |-> "src/b.zig", name |-> "b"],
     [path |-> "src/a.zig", name |-> "b"]}

EnvChoices ==
    {[out_dir |-> OutDirValue, project_dir |-> ProjectDirValue],
     [out_dir |-> Unset, project_dir |-> ProjectDirValue],
     [out_dir |-> OutDirValue, project_dir |-> Unset]}

\* build.rs calls no zig_bin, and the windows crate unpacks no archive
NoCrate == "none"
ArchivesOf(c) ==
    IF c \in {"zig_build_bin_linux_x86_64", "zig_build_linux_x86_64"}
      THEN ArchiveOrders ELSE {<<>>}

EmptyFs == [q \in {} |-> None]
\* the windows crate ships its toolchain beside its sources
ShippedFs(c) ==
    IF c = "zig_build_bin_windows_x86_64"
      THEN {EmptyFs, WriteFile(EmptyFs, BinPath(c, OutDirValue), ToolFile(FALSE))}
      ELSE {EmptyFs}

InitCommon ==
    /\ env \in EnvChoices
    /\ zpc = [p \in Procs |-> "none"]
    /\ zptr = [p \in Procs |-> 1]
    /\ zwrites = [p \in Procs |-> 0]
    /\ zcalls = [p \in Procs |-> 0]
    /\ zret = [p \in Procs |-> None]
    /\ zprev = [p \in Procs |-> None]
    /\ pc = "start"
    /\ unit = NoUnit
    /\ nunits = 0
    /\ run = 1
    /\ out = <<>>
    /\ trace = <<>>
    /\ argv = None
    /\ output = None
    /\ diag = None
    /\ cause = "none"
    /\ fresh = {}
    /\ finished = <<>>

\* one build script: it calls lib for its units, or it is build.rs, or it
\* calls one crate's zig_bin directly
Init ==
    /\ InitCommon
    /\ \E pr \in {"lib", "main", "zig_bin"} :
          /\ prog = [p \in Procs |-> IF p = Builder THEN pr ELSE "off"]
          /\ host \in IF pr = "lib" THEN Hosts ELSE {"linux-x86_64"}
          /\ modsGen \in IF pr = "lib" THEN BOOLEAN ELSE {FALSE}
          /\ \E c \in IF pr = "lib" THEN ZigBinImports(host)
                      ELSE IF pr = "zig_bin" THEN Crates
                      ELSE {NoCrate} :
                /\ crate = [p \in Procs |-> c]
                /\ archive \in ArchivesOf(c)
                /\ fs \in ShippedFs(c)

Next ==
    \/ \E u \in Units : LibEnter(u)
    \/ CallZigBin(Builder)
    \/ ZigBinStep(Builder)
    \/ Cbindgen
    \/ Compile
    \/ Bindgen
    \/ EmitSearch
    \/ EmitLib
    \/ MainEnter
    \/ MainCompile
    \/ MainEmitRerun
    \/ MainEmitSearch
    \/ MainEmitLib
    \/ MainBindgen
    \/ Rerun

Spec == Init /\ [][Next]_vars

\* two build processes that share OUT_DIR and provision the same toolchain
InitConc ==
    /\ InitCommon
    /\ host = "linux-x86_64"
    /\ modsGen = FALSE
    /\ prog = [p \in Procs |-> "zig_bin"]
    /\ \E c \in Crates \ {"zig_build_bin_windows_x86_64"} :
          /\ crate = [p \in Procs |-> c]
          /\ archive \in ArchivesOf(c)
    /\ fs = EmptyFs

NextConc == \E p \in Procs : CallZigBin(p) \/ ZigBinStep(p)

SpecConc == InitConc /\ [][NextConc]_vars


(* ================================ claims ================================ *)
\* every run of stage a precedes every run of stage b (current unit)
Before(a, b) ==
    \A i, j \in 1..Len(trace) : (trace[i] = a /\ trace[j] = b) => i < j
Ran(a) == \E i \in 1..Len(trace) : trace[i] = a
\* the directory a Command's arguments give after --output-dir
OutputDirOf(args) ==
    args[(CHOOSE i \in 1..Len(args) : args[i] = "--output-dir") + 1]
LinesSet(lines) == {lines[k].line : k \in 1..Len(lines)}

C2_NoDirectiveOfFailedUnit ==
    pc = "failed" => LinesOf(out, nunits) = <<>>

\* C3: of two calls of zig_bin in sequence over one OUT_DIR, the second
\* returns the path the first returned and writes nothing to the filesystem.
C3_SecondCallWritesNothing ==
    \A p \in Procs :
        (zpc[p] = "none" /\ zret[p] # None /\ zprev[p] # None)
            => (zret[p].ret = zprev[p].ret /\ zret[p].writes = 0)

\* C4: with two processes sharing OUT_DIR, a call of the checking zig_bin
\* returns only when the whole toolchain is present under the extraction root.
C4_ReturnsCompleteToolchain ==
    \A p \in Procs :
        (crate[p] = "zig_build_bin_linux_x86_64" /\ zret[p] # None) => zret[p].ready

\* C5: on each supported host the zig_bin that lib calls is the one of that
\* host's own crate, and no other crate's predicate is satisfied.
C5_DispatchSelectsOwnCrate ==
    (prog[Builder] = "lib" /\ pc = "zig_bin") =>
        (ZigBinImports(host) = {OwnCrate(host)} /\ crate[Builder] = OwnCrate(host))

\* C6: a unit whose pipeline succeeded has exactly three directives: the
\* link-search of its output directory, the static link-lib of its name, and
\* the rerun-if-changed of its source path.
C6_ThreeDirectives ==
    \A i \in 1..Len(finished) :
        LET f == finished[i]
        IN  /\ Len(f.lines) = 3
            /\ LinesSet(f.lines) = {LinkSearch(OutputDirOf(f.argv)), LinkLib(f.name),
                                    RerunIfChanged(SrcPath(env.project_dir, f.path))}

\* C7: when the compiler ran and exited unsuccessfully, the run has failed,
\* the diagnostic shown is the captured standard error byte for byte, and no
\* directive of the unit was emitted.
C7_StderrVerbatim ==
    (output # None /\ output.spawned /\ ~output.success)
        => /\ pc = "failed"
           /\ diag.body = output.stderr
           /\ LinesOf(out, nunits) = <<>>

\* C8: two units of one build with different library names are compiled into
\* different output directories, and the link-search directive of a unit
\* names the directory its compiler was given.
C8_DistinctOutputDirs ==
    /\ \A i, j \in 1..Len(finished) :
          finished[i].name # finished[j].name
              => OutputDirOf(finished[i].argv) # OutputDirOf(finished[j].argv)
    /\ \A i \in 1..Len(finished) :
          /\ LinkSearch(OutputDirOf(finished[i].argv)) \in LinesSet(finished[i].lines)
          /\ (argv # None /\ finished[i].name # unit.name)
                => OutputDirOf(argv) # OutputDirOf(finished[i].argv)

\* two units with different names completed in one run
C8_Witness ==
    /\ Len(finished) = 2
    /\ finished[1].name # finished[2].name

\* C9: when a unit's compilation fails after an earlier unit with another
\* name and another source path has succeeded in the same run, the earlier
\* unit's files and directives are what they were when it finished.
C9_EarlierUnitUntouched ==
    (pc = "failed" /\ cause = "compile") =>
        \A i \in 1..Len(finished) :
            LET f == finished[i]
            IN  (f.name # unit.name /\ f.path # unit.path)
                    => /\ Snapshot(fs, f.paths) = f.files
                       /\ LinesOf(out, f.idx) = f.lines

\* C10: when a unit's processing has ended and reached directive emission,
\* the binding source (and in lib the host-callable header too) holds content
\* generated in this run.
C10_BindingsRegenerated ==
    (pc \in {"failed", "start"} /\ nunits > 0 /\ LinesOf(out, nunits) # <<>>)
        => /\ BindingPath(SrcPath(env.project_dir, unit.path)) \in fresh
           /\ prog[Builder] = "lib" => RustH(env.project_dir) \in fresh

====
